---------------------------- MODULE Spec2Model ----------------------------
(***************************************************************************)
(* The four dashboard views of the USDC transfer dashboard:                *)
(*   "transfers"  UsdcTransfers      (src/src/components/UsdcTransfers.tsx) *)
(*   "volume"     UsdcTransferChart  (src/src/components/UsdcTransferChart.tsx) *)
(*   "wallets"    TopUsdcWallets     (src/unnamed/part_000)                 *)
(*   "count"      UsdcVolumeChart    (src/unnamed/part_001)                 *)
(* Each view is a React component with its own state and its own fetch      *)
(* handler; the views share nothing, so one view instance is modelled and   *)
(* its kind is chosen in Init.                                              *)
(*                                                                         *)
(* Strings the code slices or parses are sequences of one-character         *)
(* strings.  Amounts are kept in raw token units (10^-6 USDC) and, where    *)
(* the code rounds with toFixed(2), in cents; JavaScript's floating point   *)
(* arithmetic is modelled as exact arithmetic on these units.               *)
(***************************************************************************)
EXTENDS Integers, Sequences, FiniteSets, TLC

VARIABLES
    kind,          \* which of the four components this instance is
    tz,            \* offset of the browser's local time from UTC, in seconds
    mounted,       \* the mount effect has run
    result,        \* transfers / chartData / walletStats / volumeData
    loading,       \* useState(true)
    isRefreshing,  \* useState(false); the refresh button is disabled by it
    error,         \* useState<string | null>(null); absent in UsdcTransfers
    crashed,       \* an exception escaped from render (no error boundary)
    inflight,      \* the calls of the fetch handler suspended at an await
    issued,        \* HTTP requests issued so far
    effectRuns,    \* runs of the mount effect so far
    clicks,        \* clicks on the refresh button so far
    last,          \* the trigger or completion taken last, and the body it processed
    lastOkBody,    \* the body of the last call whose try block ran to its end
    done           \* the calls that have run to their end, in that order

vars == <<kind, tz, mounted, result, loading, isRefreshing, error, crashed,
          inflight, issued, effectRuns, clicks, last, lastOkBody, done>>

-----------------------------------------------------------------------------
(* Bounds of the model. *)

\* total number of HTTP requests a behaviour may issue
MaxRequests == 4

\* number of free events appended to a seed batch in the aggregation inputs
MaxTail == 3

-----------------------------------------------------------------------------
(* JavaScript values and string primitives. *)

Views == {"transfers", "volume", "wallets", "count"}

\* the three components that declare an error state
HasErrorState(k) == k # "transfers"

Null == "null"

\* a property that is absent from a JSON record reads as undefined
Undefined == <<"undefined">>

NaN == -1

Min(a, b) == IF a < b THEN a ELSE b

\* String.prototype.slice(n), n >= 0
Slice(s, n) == IF n >= Len(s) THEN <<>> ELSE SubSeq(s, n + 1, Len(s))

\* Array.prototype.slice(0, n)
SliceTo(s, n) == SubSeq(s, 1, Min(n, Len(s)))

HexVal(c) ==
    CASE c = "0" -> 0  [] c = "1" -> 1  [] c = "2" -> 2  [] c = "3" -> 3
      [] c = "4" -> 4  [] c = "5" -> 5  [] c = "6" -> 6  [] c = "7" -> 7
      [] c = "8" -> 8  [] c = "9" -> 9
      [] c \in {"a", "A"} -> 10  [] c \in {"b", "B"} -> 11
      [] c \in {"c", "C"} -> 12  [] c \in {"d", "D"} -> 13
      [] c \in {"e", "E"} -> 14  [] c \in {"f", "F"} -> 15
      [] OTHER -> NaN

RECURSIVE ParseDigits(_, _, _, _)
\* the value of the longest prefix of s[i..] made of digits of the radix
ParseDigits(s, i, radix, acc) ==
    IF i > Len(s) \/ HexVal(s[i]) = NaN \/ HexVal(s[i]) >= radix
    THEN acc
    ELSE ParseDigits(s, i + 1, radix, acc * radix + HexVal(s[i]))

\* parseInt(s, 16): NaN when s does not start with a hex digit
ParseInt16(s) ==
    IF Len(s) = 0 \/ HexVal(s[1]) = NaN THEN NaN ELSE ParseDigits(s, 1, 16, 0)

\* Number(s) for a string of decimal digits
NumberOf(s) == ParseDigits(s, 1, 10, 0)

DecDigit(n) == <<"0", "1", "2", "3", "4", "5", "6", "7", "8", "9">>[n + 1]

\* String(n).padStart(2, '0') for 0 <= n <= 99
PadStart2(n) == <<DecDigit(n \div 10), DecDigit(n % 10)>>

-----------------------------------------------------------------------------
(* Decoding one event record. *)

\* parseInt(event.data.slice(2), 16) / 1e6, in raw units (10^-6 USDC)
AmountRaw(data) == ParseInt16(Slice(data, 2))

\* Number(amount.toFixed(2)), in cents: the raw amount rounded to 10^4 units
ToFixed2(raw) == (raw + 5000) \div 10000

\* a decoder that drops the 24 padding characters but not the "0x" before them
decodeAddressSlice24(topic) == <<"0", "x">> \o Slice(topic, 24)

\* decodeAddress of UsdcTransfers: `0x${topic.slice(26)}`
decodeAddress(topic) == <<"0", "x">> \o Slice(topic, 26)

\* the inline decode of TopUsdcWallets: `0x${event.topics[1].slice(26)}`
WalletAddress(topic) == <<"0", "x">> \o Slice(topic, 26)

\* event.topics[i], JavaScript's zero-based index
TopicAt(event, i) ==
    IF i + 1 <= Len(event.topics) THEN event.topics[i + 1] ELSE Undefined

\* date.getHours() * 60 + date.getMinutes() of new Date(block_timestamp * 1000)
MinuteOfDay(ts) == ((ts + tz) \div 60) % 1440

\* `${String(date.getHours()).padStart(2,'0')}:${String(date.getMinutes()).padStart(2,'0')}`
MinuteLabel(ts) ==
    PadStart2(MinuteOfDay(ts) \div 60) \o <<":">> \o PadStart2(MinuteOfDay(ts) % 60)

\* timestamp.toLocaleTimeString([], {hour: '2-digit', minute: '2-digit', hour12: false})
ToLocaleTimeString(ts) == MinuteLabel(ts)

\* a.minute.split(':').map(Number), then aHour * 60 + aMin
MinutesSinceMidnight(label) ==
    NumberOf(SubSeq(label, 1, 2)) * 60 + NumberOf(SubSeq(label, 4, 5))

\* new Date('1970/01/01 ' + label).getTime(), in milliseconds of local time
DateGetTime(label) ==
    (NumberOf(SubSeq(label, 1, 2)) * 3600 + NumberOf(SubSeq(label, 4, 5)) * 60 - tz) * 1000

-----------------------------------------------------------------------------
(* The outcome of the try block of a fetch handler: the value handed to    *)
(* the state setter, or the message of the exception thrown.               *)

Return(v) == [ok |-> TRUE, value |-> v, error |-> Null]

Throw(msg) == [ok |-> FALSE, value |-> <<>>, error |-> msg]

\* throw new Error('No transfer data received')
NoDataMessage == "No transfer data received"

\* the message of the TypeError of reading a property of undefined
TypeErrorMessage == "Cannot read properties of undefined"

\* the message of the TypeError a rejected fetch() carries
FetchErrorMessage == "Failed to fetch"

\* the message of the SyntaxError a rejected response.json() carries
JsonErrorMessage == "Unexpected token in JSON"

\* a response body: present is whether it has a data array
NoDataBody == [present |-> FALSE, data |-> <<>>]

DataBody(events) == [present |-> TRUE, data |-> events]

\* !data?.data?.length
NoLength(body) == ~body.present \/ Len(body.data) = 0

-----------------------------------------------------------------------------
(* Array.prototype.sort: a stable sort by a comparator. *)

\* (a, b) => b.totalAmount - a.totalAmount
WalletCompare(a, b) == b.totalAmount - a.totalAmount

\* (a, b) => new Date('1970/01/01 ' + a.timestamp).getTime() - new Date(... b.timestamp).getTime()
ChartCompare(a, b) == DateGetTime(a.timestamp) - DateGetTime(b.timestamp)

\* a comparator that leaves the hours out
VolumeCompareMinutes(a, b) ==
    NumberOf(SubSeq(a.minute, 4, 5)) - NumberOf(SubSeq(b.minute, 4, 5))

\* (a, b) => (aHour * 60 + aMin) - (bHour * 60 + bMin)
VolumeCompare(a, b) == MinutesSinceMidnight(a.minute) - MinutesSinceMidnight(b.minute)

\* (a, b) => amountB - amountA
TransferCompare(a, b) == AmountRaw(b.data) - AmountRaw(a.data)

Compare(mode, a, b) ==
    CASE mode = "wallets" -> WalletCompare(a, b)
      [] mode = "volume" -> ChartCompare(a, b)
      [] mode = "count" -> VolumeCompare(a, b)
      [] mode = "transfers" -> TransferCompare(a, b)

RECURSIVE InsertSorted(_, _, _)
\* x goes after every element that does not compare greater than it
InsertSorted(mode, s, x) ==
    IF s = <<>> THEN <<x>>
    ELSE IF Compare(mode, s[Len(s)], x) > 0
         THEN Append(InsertSorted(mode, SubSeq(s, 1, Len(s) - 1), x), s[Len(s)])
         ELSE Append(s, x)

RECURSIVE SortFrom(_, _, _, _)
SortFrom(mode, s, i, acc) ==
    IF i > Len(s) THEN acc
    ELSE SortFrom(mode, s, i + 1, InsertSorted(mode, acc, s[i]))

Sort(mode, s) == SortFrom(mode, s, 1, <<>>)

-----------------------------------------------------------------------------
(* TopUsdcWallets: aggregation by wallet.  The Map keeps insertion order,  *)
(* so it is a sequence of summaries.                                       *)

TopN == 10

\* averageAmount is the quotient num / den
ZeroWallet(addr) ==
    [address |-> addr, totalAmount |-> 0, transferCount |-> 0,
     averageAmount |-> [num |-> 0, den |-> 1]]

\* walletMap.has(addr)
WalletHas(map, addr) == \E i \in 1..Len(map) : map[i].address = addr

\* if (!walletMap.has(addr)) walletMap.set(addr, {...zeros})
WalletEnsure(map, addr) ==
    IF WalletHas(map, addr) THEN map ELSE Append(map, ZeroWallet(addr))

\* wallet.totalAmount += amount; wallet.transferCount += 1;
\* wallet.averageAmount = wallet.totalAmount / wallet.transferCount
WalletCredit(w, amount) ==
    [address |-> w.address,
     totalAmount |-> w.totalAmount + amount,
     transferCount |-> w.transferCount + 1,
     averageAmount |-> [num |-> w.totalAmount + amount, den |-> w.transferCount + 1]]

WalletUpdate(map, addr, amount) ==
    LET m == WalletEnsure(map, addr)
        i == CHOOSE j \in 1..Len(m) : m[j].address = addr
    IN  [m EXCEPT ![i] = WalletCredit(m[i], amount)]

\* the reads of one forEach callback that throw on an absent field
WalletEventThrows(event) ==
    \/ event.data = Undefined
    \/ TopicAt(event, 1) = Undefined
    \/ TopicAt(event, 2) = Undefined

\* a callback that counts a transfer to oneself once
WalletStepOnce(map, event) ==
    LET amount == AmountRaw(event.data)
        fromAddress == WalletAddress(TopicAt(event, 1))
        toAddress == WalletAddress(TopicAt(event, 2))
    IN  IF fromAddress = toAddress
        THEN WalletUpdate(map, fromAddress, amount)
        ELSE WalletUpdate(WalletUpdate(map, fromAddress, amount), toAddress, amount)

\* the body of the forEach callback
WalletStep(map, event) ==
    LET amount == AmountRaw(event.data)
        fromAddress == WalletAddress(TopicAt(event, 1))
        toAddress == WalletAddress(TopicAt(event, 2))
    IN  WalletUpdate(WalletUpdate(map, fromAddress, amount), toAddress, amount)

RECURSIVE WalletForEach(_, _, _)
WalletForEach(events, i, map) ==
    IF i > Len(events) THEN Return(map)
    ELSE IF WalletEventThrows(events[i]) THEN Throw(TypeErrorMessage)
    ELSE WalletForEach(events, i + 1, WalletStep(map, events[i]))

\* walletMap after data.data.forEach(...)
WalletMap(events) == WalletForEach(events, 1, <<>>)

\* the ten summaries seen first, sorted: slice before sort
SortedWalletsSliceFirst(map) == Sort("wallets", SliceTo(map, TopN))

\* Array.from(walletMap.values()).sort(...).slice(0, 10)
SortedWallets(map) == SliceTo(Sort("wallets", map), TopN)

getTopWallets(body) ==
    IF NoLength(body) THEN Throw(NoDataMessage)
    ELSE LET m == WalletMap(body.data)
         IN  IF m.ok THEN Return(SortedWallets(m.value)) ELSE m

-----------------------------------------------------------------------------
(* UsdcTransferChart: volume per minute.  Amounts are in cents.            *)

\* the callback of .map: one chart point per event
ChartPoint(event) ==
    [timestamp |-> ToLocaleTimeString(event.block_timestamp),
     amount |-> ToFixed2(AmountRaw(event.data))]

\* event.data.slice(2) throws on an absent data field
ChartEventThrows(event) == event.data = Undefined

RECURSIVE ChartMap(_, _, _)
ChartMap(events, i, acc) ==
    IF i > Len(events) THEN Return(acc)
    ELSE IF ChartEventThrows(events[i]) THEN Throw(TypeErrorMessage)
    ELSE ChartMap(events, i + 1, Append(acc, ChartPoint(events[i])))

\* a callback that assigns the amount instead of adding it
ChartReduceOverwrite(acc, curr) ==
    IF \E i \in 1..Len(acc) : acc[i].timestamp = curr.timestamp
    THEN LET i == CHOOSE j \in 1..Len(acc) :
                     /\ acc[j].timestamp = curr.timestamp
                     /\ \A h \in 1..(j - 1) : acc[h].timestamp # curr.timestamp
         IN  [acc EXCEPT ![i].amount = curr.amount]
    ELSE Append(acc, curr)

\* the callback of .reduce: add to the entry found for the label, or push
ChartReduceStep(acc, curr) ==
    IF \E i \in 1..Len(acc) : acc[i].timestamp = curr.timestamp
    THEN LET i == CHOOSE j \in 1..Len(acc) :
                     /\ acc[j].timestamp = curr.timestamp
                     /\ \A h \in 1..(j - 1) : acc[h].timestamp # curr.timestamp
         IN  [acc EXCEPT ![i].amount = @ + curr.amount]
    ELSE Append(acc, curr)

RECURSIVE ChartReduce(_, _, _)
ChartReduce(points, i, acc) ==
    IF i > Len(points) THEN acc
    ELSE ChartReduce(points, i + 1, ChartReduceStep(acc, points[i]))

\* data.data.map(...).reduce(..., []).sort(...)
FormattedData(points) == Sort("volume", ChartReduce(points, 1, <<>>))

getChartData(body) ==
    IF NoLength(body) THEN Throw(NoDataMessage)
    ELSE LET m == ChartMap(body.data, 1, <<>>)
         IN  IF m.ok THEN Return(FormattedData(m.value)) ELSE m

-----------------------------------------------------------------------------
(* UsdcVolumeChart: number of transfers per minute.  The accumulator       *)
(* object keeps its keys in insertion order, so it is a sequence.          *)

\* acc[minute] = (acc[minute] || 0) + 1
VolumeReduceStep(acc, transfer) ==
    LET minute == MinuteLabel(transfer.block_timestamp) IN
    IF \E i \in 1..Len(acc) : acc[i].minute = minute
    THEN LET i == CHOOSE j \in 1..Len(acc) : acc[j].minute = minute
         IN  [acc EXCEPT ![i].volume = @ + 1]
    ELSE Append(acc, [minute |-> minute, volume |-> 0 + 1])

RECURSIVE VolumeByMinute(_, _, _)
VolumeByMinute(events, i, acc) ==
    IF i > Len(events) THEN acc
    ELSE VolumeByMinute(events, i + 1, VolumeReduceStep(acc, events[i]))

\* Object.entries(volumeByMinute).map(...).sort(...)
SortedData(events) == Sort("count", VolumeByMinute(events, 1, <<>>))

getVolumeData(body) ==
    IF NoLength(body) THEN Throw(NoDataMessage) ELSE Return(SortedData(body.data))

-----------------------------------------------------------------------------
(* UsdcTransfers: the ten most recent transfers, sorted by amount.         *)

\* the comparator reads a.data.slice and b.data.slice; a sort of two or more
\* records calls it on every record, a sort of fewer never calls it
TransferSortThrows(events) ==
    Len(events) >= 2 /\ \E i \in 1..Len(events) : events[i].data = Undefined

\* data.data.sort(...): a TypeError when the body has no data array
getTransferList(body) ==
    IF ~body.present THEN Throw(TypeErrorMessage)
    ELSE IF TransferSortThrows(body.data) THEN Throw(TypeErrorMessage)
    ELSE Return(Sort("transfers", body.data))

\* rendering a row calls decodeAddress(topics[1]), decodeAddress(topics[2])
\* and decodeAmount(data): each throws on an absent field
RowThrows(transfer) ==
    \/ TopicAt(transfer, 1) = Undefined
    \/ TopicAt(transfer, 2) = Undefined
    \/ transfer.data = Undefined

\* an exception escapes from the render of the component
RenderThrows(k, isLoading, rows) ==
    k = "transfers" /\ ~isLoading /\ \E i \in 1..Len(rows) : RowThrows(rows[i])

-----------------------------------------------------------------------------
\* the try block of the fetch handler of view k, from the parsed body on
Process(k, body) ==
    CASE k = "transfers" -> getTransferList(body)
      [] k = "volume" -> getChartData(body)
      [] k = "wallets" -> getTopWallets(body)
      [] k = "count" -> getVolumeData(body)

-----------------------------------------------------------------------------
(* The responses the API may give.  An event record has the fields the     *)
(* components read: block_timestamp, data and topics.                      *)

Rep(c, n) == [i \in 1..n |-> c]

\* topics[0]: the hash of the event signature (never read by the components)
SignatureTopic == <<"0", "x">> \o Rep("d", 64)

\* the 38 hex characters between the first and the last of an address
AddressMiddle ==
    << "1", "2", "3", "4", "5", "6", "7", "8", "9", "0",
       "a", "B", "c", "D", "e", "F", "f", "E", "d", "C",
       "b", "A", "0", "9", "8", "7", "6", "5", "4", "3",
       "2", "1", "a", "b", "c", "d", "e", "f" >>

\* the 40 hex characters of the address named c
AddressOf(c) == <<c>> \o AddressMiddle \o <<c>>

\* the 24 hex characters before the address: zeros, but for one address
\* whose topic carries other digits there
PaddingOf(c) == IF c = "e" THEN Rep("f", 24) ELSE Rep("0", 24)

\* a 20-byte address left-padded to a 32-byte topic
TopicOf(c) == <<"0", "x">> \o PaddingOf(c) \o AddressOf(c)

Event(ts, data, from, to) ==
    [block_timestamp |-> ts, data |-> data,
     topics |-> <<SignatureTopic, TopicOf(from), TopicOf(to)>>]

\* a UTC midnight; times of day below are seconds after it
DayStart == 19676 * 86400

At(h, m, sec) == DayStart + h * 3600 + m * 60 + sec

TimeZones == {0, 19800}

USDC20 == <<"0", "x", "1", "3", "1", "2", "d", "0", "0">>
USDC10 == <<"0", "x", "9", "8", "9", "6", "8", "0">>
USDC9 == <<"0", "x", "8", "9", "5", "4", "4", "0">>
USDC8 == <<"0", "x", "7", "a", "1", "2", "0", "0">>
USDC7 == <<"0", "x", "6", "a", "c", "f", "c", "0">>
USDC6 == <<"0", "x", "5", "b", "8", "d", "8", "0">>
USDC5 == <<"0", "x", "4", "c", "4", "b", "4", "0">>
USDC1 == <<"0", "x", "0", "F", "4", "2", "4", "0">>
\* 1.234567 USDC and 0.005 USDC: amounts that are no whole number of cents
USDCFraction == <<"0", "x", "1", "2", "d", "6", "8", "7">>
USDCHalfCent == <<"0", "x", "1", "3", "8", "8">>

\* A sends 10 and 20 and receives 5; a transfer to oneself; two minutes that
\* collide across midnight; amounts below one cent
TailPool ==
    { Event(At(9, 5, 10), USDC10, "a", "b"),
      Event(At(9, 1, 0), USDC20, "a", "c"),
      Event(At(8, 59, 30), USDC5, "b", "a"),
      Event(At(9, 5, 50), USDC1, "a", "a"),
      Event(At(33, 1, 20), USDCFraction, "c", "e"),
      Event(At(23, 59, 59), USDCHalfCent, "e", "b") }

\* five transfers among ten further addresses, newest first
SeedBatch ==
    << Event(At(9, 10, 0), USDC9, "1", "2"),
       Event(At(9, 9, 0), USDC8, "3", "4"),
       Event(At(9, 8, 0), USDC7, "5", "6"),
       Event(At(9, 7, 0), USDC6, "7", "8"),
       Event(At(9, 6, 0), USDC5, "9", "0") >>

Tails(n) == UNION { [1..k -> TailPool] : k \in 0..n }

\* the inputs of the aggregation: a seed batch or none, then up to MaxTail events
AggBatches == { seed \o tail : seed \in {<<>>, SeedBatch}, tail \in Tails(MaxTail) }

AggBodies == { DataBody(b) : b \in AggBatches }

\* a record without a data field, and one whose topics hold the signature only
NoDataEvent ==
    [block_timestamp |-> At(9, 1, 0), data |-> Undefined,
     topics |-> <<SignatureTopic, TopicOf("a"), TopicOf("c")>>]

NoTopicsEvent ==
    [block_timestamp |-> At(9, 1, 0), data |-> USDC20, topics |-> <<SignatureTopic>>]

GoodPair == << Event(At(9, 5, 10), USDC10, "a", "b"), Event(At(9, 1, 0), USDC20, "a", "c") >>

GoodSingle == << Event(At(8, 59, 30), USDC5, "b", "a") >>

\* the responses of the lifecycle: no data array, an empty one, two batches
\* that decode, and batches whose last record cannot be decoded
LifeBodies ==
    { NoDataBody, DataBody(<<>>), DataBody(GoodPair), DataBody(GoodSingle),
      DataBody(<<GoodPair[1], NoDataEvent>>),
      DataBody(<<GoodPair[1], NoTopicsEvent>>),
      DataBody(<<NoDataEvent>>) }

-----------------------------------------------------------------------------
(* The lifecycle of a view. *)

NoRequest == [op |-> "init", id |-> 0, ok |-> TRUE, body |-> NoDataBody]

Init ==
    /\ kind \in Views
    /\ tz \in TimeZones
    /\ mounted = FALSE
    /\ result = <<>>
    /\ loading = TRUE
    /\ isRefreshing = FALSE
    /\ error = Null
    /\ crashed = FALSE
    /\ inflight = {}
    /\ issued = 0
    /\ effectRuns = 0
    /\ clicks = 0
    /\ last = NoRequest
    /\ lastOkBody = [some |-> FALSE, id |-> 0, body |-> NoDataBody]
    /\ done = <<>>

\* a handler that shows the loading state again on every call
StartFetchLoading(n) ==
    /\ isRefreshing' = TRUE
    /\ error' = Null
    /\ loading' = TRUE
    /\ inflight' = inflight \cup { [id |-> issued + j, phase |-> "fetch"] : j \in 1..n }
    /\ issued' = issued + n
    /\ UNCHANGED <<kind, tz, result, crashed, lastOkBody, done>>

\* n calls of the fetch handler, each run up to its first await:
\* setIsRefreshing(true); setError(null); fetch(apiUrl)
StartFetch(n) ==
    /\ isRefreshing' = TRUE
    /\ error' = Null
    /\ inflight' = inflight \cup { [id |-> issued + j, phase |-> "fetch"] : j \in 1..n }
    /\ issued' = issued + n
    /\ UNCHANGED <<kind, tz, result, loading, crashed, lastOkBody, done>>

\* useEffect(() => { getData() }, []): the effect runs once on mount, and
\* twice in a row under React's StrictMode in development
Mount(strict) ==
    LET n == IF strict THEN 2 ELSE 1 IN
    /\ ~mounted
    /\ issued + n <= MaxRequests
    /\ mounted' = TRUE
    /\ effectRuns' = effectRuns + n
    /\ StartFetch(n)
    /\ last' = [op |-> "mount", id |-> issued + n, ok |-> TRUE, body |-> NoDataBody]
    /\ UNCHANGED clicks

\* <button onClick={getData} disabled={isRefreshing}>
Refresh ==
    /\ mounted
    /\ ~crashed
    /\ ~isRefreshing
    /\ issued < MaxRequests
    /\ clicks' = clicks + 1
    /\ StartFetch(1)
    /\ last' = [op |-> "click", id |-> issued + 1, ok |-> TRUE, body |-> NoDataBody]
    /\ UNCHANGED <<mounted, effectRuns>>

\* await fetch(...) resolves: the handler goes on to await response.json()
FetchResolve(r) ==
    /\ r \in inflight
    /\ r.phase = "fetch"
    /\ inflight' = (inflight \ {r}) \cup {[r EXCEPT !.phase = "json"]}
    /\ UNCHANGED <<kind, tz, mounted, result, loading, isRefreshing, error, crashed,
                   issued, effectRuns, clicks, last, lastOkBody, done>>

\* a handler that discards the response of every request but the latest issued
SettleLatestOnly(r, outcome) ==
    IF crashed
    THEN UNCHANGED <<result, error, loading, isRefreshing, crashed>>
    ELSE /\ result' = IF outcome.ok /\ r.id = issued THEN outcome.value ELSE result
         /\ error' = IF ~outcome.ok /\ HasErrorState(kind) THEN outcome.error ELSE error
         /\ loading' = FALSE
         /\ isRefreshing' = FALSE
         /\ crashed' = RenderThrows(kind, loading', result')

\* the state the call leaves: the setter of the result at the end of the try
\* block, or setError(error.message) in the catch block; then the finally
\* block; then React renders.  The setters of a component whose render has
\* thrown do nothing: it is unmounted.
Settle(r, outcome) ==
    IF crashed
    THEN UNCHANGED <<result, error, loading, isRefreshing, crashed>>
    ELSE /\ result' = IF outcome.ok THEN outcome.value ELSE result
         /\ error' = IF ~outcome.ok /\ HasErrorState(kind) THEN outcome.error ELSE error
         /\ loading' = FALSE
         /\ isRefreshing' = FALSE
         /\ crashed' = RenderThrows(kind, loading', result')

\* a handler whose catch block calls the handler again
RetireAndRetry(r, outcome) ==
    IF ~outcome.ok /\ issued < MaxRequests
    THEN /\ inflight' = (inflight \ {r}) \cup {[id |-> issued + 1, phase |-> "fetch"]}
         /\ issued' = issued + 1
    ELSE /\ inflight' = inflight \ {r}
         /\ issued' = issued

\* the call ends: the catch and finally blocks issue no request
Retire(r, outcome) ==
    /\ inflight' = inflight \ {r}
    /\ issued' = issued

\* the rest of the handler after its last await, run to its end
Finish(r, outcome, body) ==
    /\ Retire(r, outcome)
    /\ Settle(r, outcome)
    /\ last' = [op |-> "complete", id |-> r.id, ok |-> outcome.ok, body |-> body]
    /\ lastOkBody' = IF outcome.ok
                     THEN [some |-> TRUE, id |-> r.id, body |-> body]
                     ELSE lastOkBody
    /\ done' = Append(done, [id |-> r.id, ok |-> outcome.ok])
    /\ UNCHANGED <<kind, tz, mounted, effectRuns, clicks>>

\* await fetch(...) rejects: a network failure
FetchReject(r) ==
    /\ r \in inflight
    /\ r.phase = "fetch"
    /\ Finish(r, Throw(FetchErrorMessage), NoDataBody)

\* await response.json() rejects: the body is not JSON
JsonReject(r) ==
    /\ r \in inflight
    /\ r.phase = "json"
    /\ Finish(r, Throw(JsonErrorMessage), NoDataBody)

\* await response.json() resolves with a body, which the handler processes
JsonResolve(r, body) ==
    /\ r \in inflight
    /\ r.phase = "json"
    /\ Finish(r, Process(kind, body), body)

Next ==
    \/ \E strict \in BOOLEAN : Mount(strict)
    \/ Refresh
    \/ \E r \in inflight : FetchResolve(r)
    \/ \E r \in inflight : FetchReject(r)
    \/ \E r \in inflight : JsonReject(r)
    \/ \E r \in inflight, body \in LifeBodies : JsonResolve(r, body)

Spec == Init /\ [][Next]_vars

\* one fetch of a mounted view, its response drawn from the aggregation inputs
NextAgg ==
    \/ Mount(FALSE)
    \/ \E r \in inflight : FetchResolve(r)
    \/ \E r \in inflight, body \in AggBodies : JsonResolve(r, body)

SpecAgg == Init /\ [][NextAgg]_vars

-----------------------------------------------------------------------------
(* Vocabulary of the properties. *)

\* the step taken last ran a call of the fetch handler to its end
Completed == last.op = "complete"

\* a record of the body lacks a field the view decodes, in the handler or
\* when the row is rendered
Undecodable(k, body) ==
    \E i \in 1..Len(body.data) :
        CASE k = "transfers" -> RowThrows(body.data[i])
          [] k = "volume" -> ChartEventThrows(body.data[i])
          [] k = "wallets" -> WalletEventThrows(body.data[i])
          [] k = "count" -> FALSE

\* every request issued has run to its end
AllDone == inflight = {} /\ Len(done) = issued

-----------------------------------------------------------------------------
(* C1  In every view, a fetch that ends in a failure (network or JSON       *)
(* failure, or a record whose data field or topic is missing) leaves the    *)
(* view with a non-null error message, the loading flag cleared and the     *)
(* result set not populated from that response.                             *)
C1_FailureSetsError ==
    (Completed /\ (~last.ok \/ Undecodable(kind, last.body))) =>
        /\ error # Null
        /\ ~loading
        /\ ~(lastOkBody.some /\ lastOkBody.id = last.id)
        /\ ~crashed

(* C2  In every view and after any earlier fetches, a response whose data   *)
(* array is empty surfaces an error, leaves the result set empty and        *)
(* raises no unhandled exception.                                           *)
C2_EmptyResponse ==
    (Completed /\ last.body = DataBody(<<>>)) =>
        /\ error # Null
        /\ result = <<>>
        /\ ~crashed

(* C3  Whenever a request of the view is in flight, the refresh control is  *)
(* disabled (isRefreshing is true).                                         *)
C3_DisabledWhileInFlight ==
    (inflight # {} /\ ~crashed) => isRefreshing

(* C4, as claimed  Once two overlapping requests of a view (the two issued  *)
(* by one mount) have both completed, a result set that was written is the  *)
(* one written by the request that completed last.                          *)
C4_LastCompletedWins ==
    (AllDone /\ effectRuns = 2 /\ issued = 2 /\ ~crashed /\ lastOkBody.some) =>
        /\ lastOkBody.id = last.id
        /\ result = Process(kind, last.body).value

\* the position in the completion log of the last call that did not throw
LastOkIndex ==
    IF \E i \in 1..Len(done) : done[i].ok
    THEN CHOOSE i \in 1..Len(done) : done[i].ok /\ \A j \in (i + 1)..Len(done) : ~done[j].ok
    ELSE 0

(* C4, amended  Every request resolves, none is cancelled or discarded, and *)
(* once all have completed the result set is the one written by the last    *)
(* request to complete without failing, whatever the order of issue; it is  *)
(* the initial empty set when every request failed.  A request that fails   *)
(* does not write the result set.                                           *)
C4_LastSuccessfulWins ==
    (AllDone /\ ~crashed) =>
        /\ \A id \in 1..issued : \E i \in 1..Len(done) : done[i].id = id
        /\ IF LastOkIndex = 0
           THEN result = <<>> /\ ~lastOkBody.some
           ELSE /\ lastOkBody.some
                /\ lastOkBody.id = done[LastOkIndex].id
                /\ result = Process(kind, lastOkBody.body).value

\* two requests issued by one mount completed out of order, both without
\* failing, and the one issued first wrote the result set last
C4_Witness ==
    /\ AllDone /\ ~crashed
    /\ effectRuns = 2 /\ issued = 2
    /\ done = <<[id |-> 2, ok |-> TRUE], [id |-> 1, ok |-> TRUE]>>
    /\ last.body = DataBody(GoodSingle)
    /\ result = Process(kind, DataBody(GoodSingle)).value
    /\ result # <<>>

(* C9  The result set of a view is always its initial empty value or the    *)
(* complete aggregate of the whole event list of one response; when         *)
(* processing fails on a record of a batch, nothing of the batch becomes    *)
(* visible and the view shows the error state.                              *)
C9_NoPartialSuccess ==
    /\ \/ result = <<>>
       \/ \E body \in LifeBodies :
              Process(kind, body).ok /\ result = Process(kind, body).value
    /\ (Completed /\ Undecodable(kind, last.body)) =>
           /\ ~(lastOkBody.some /\ lastOkBody.id = last.id)
           /\ error # Null
           /\ ~crashed

(* C10  The number of HTTP requests issued equals the number of runs of the *)
(* mount effect plus the number of manual refreshes, and a request is       *)
(* issued only by the mount or by a click on the refresh control: a         *)
(* completion, failed or not, issues none.                                  *)
C10_NoAutomaticRetry ==
    /\ [](issued = effectRuns + clicks)
    /\ [][issued' # issued =>
            \/ ~mounted /\ mounted' /\ clicks' = clicks
                        /\ issued' - issued = effectRuns' - effectRuns
            \/ mounted /\ clicks' = clicks + 1 /\ issued' = issued + 1
                       /\ effectRuns' = effectRuns]_vars
    /\ [][Len(done') # Len(done) => issued' = issued]_vars

\* a request failed, nothing was in flight, and the next request was
\* issued by a click
C10_Witness ==
    /\ last.op = "click"
    /\ done # <<>> /\ ~done[Len(done)].ok
    /\ Len(done) = issued - 1
    /\ clicks >= 1

-----------------------------------------------------------------------------
(* Aggregation: what a batch is expected to yield, stated on the batch.     *)

SenderOf(event) == decodeAddress(TopicAt(event, 1))

ReceiverOf(event) == decodeAddress(TopicAt(event, 2))

AddressesOf(events) ==
    { SenderOf(events[i]) : i \in 1..Len(events) }
        \cup { ReceiverOf(events[i]) : i \in 1..Len(events) }

\* how many times the event names X: as sender, as receiver, or as both
Appearances(event, X) ==
    (IF SenderOf(event) = X THEN 1 ELSE 0) + (IF ReceiverOf(event) = X THEN 1 ELSE 0)

RECURSIVE CountFor(_, _, _)
CountFor(events, X, i) ==
    IF i > Len(events) THEN 0
    ELSE Appearances(events[i], X) + CountFor(events, X, i + 1)

RECURSIVE TotalFor(_, _, _)
TotalFor(events, X, i) ==
    IF i > Len(events) THEN 0
    ELSE Appearances(events[i], X) * AmountRaw(events[i].data) + TotalFor(events, X, i + 1)

\* the response just processed was aggregated by view k
Aggregated(k) == kind = k /\ Completed /\ last.ok /\ ~crashed

(* C5  Wallet aggregation: for every address X of the batch, transferCount  *)
(* is the number of events with X as sender plus the number with X as       *)
(* receiver, totalAmount is the sum of the amounts of exactly those         *)
(* occurrences (a transfer from X to X counts twice), and averageAmount is  *)
(* totalAmount / transferCount with transferCount >= 1; the summaries       *)
(* shown are summaries of this map.                                         *)
C5_WalletAggregation ==
    Aggregated("wallets") =>
        LET events == last.body.data
            map == WalletMap(events).value
        IN  /\ \A X \in AddressesOf(events) :
                   \E i \in 1..Len(map) :
                       /\ map[i].address = X
                       /\ \A j \in 1..Len(map) : map[j].address = X => j = i
                       /\ map[i].transferCount = CountFor(events, X, 1)
                       /\ map[i].transferCount >= 1
                       /\ map[i].totalAmount = TotalFor(events, X, 1)
                       /\ map[i].averageAmount =
                              [num |-> TotalFor(events, X, 1), den |-> CountFor(events, X, 1)]
            /\ \A i \in 1..Len(result) : \E j \in 1..Len(map) : result[i] = map[j]

\* A sends 10 and 20 and receives 5: transferCount 3, totalAmount 35
C5_Witness ==
    /\ Aggregated("wallets")
    /\ Len(last.body.data) = 3
    /\ \E i \in 1..Len(result) :
           /\ result[i].address = decodeAddress(TopicOf("a"))
           /\ result[i].transferCount = 3
           /\ result[i].totalAmount = 35000000
           /\ result[i].averageAmount = [num |-> 35000000, den |-> 3]
    /\ CountFor(last.body.data, decodeAddress(TopicOf("a")), 1) = 3
    /\ \A i \in 1..3 : SenderOf(last.body.data[i]) # ReceiverOf(last.body.data[i])

(* C6  Top-10 truncation: the result holds min(10, number of distinct       *)
(* addresses of the batch) summaries, each address at most once, in         *)
(* non-increasing order of totalAmount, and no address left out has a       *)
(* totalAmount greater than that of an address kept.                        *)
C6_TopTen ==
    Aggregated("wallets") =>
        LET events == last.body.data
            addrs == AddressesOf(events)
            kept == { result[i].address : i \in 1..Len(result) }
        IN  /\ Len(result) = Min(10, Cardinality(addrs))
            /\ kept \subseteq addrs
            /\ \A i \in 1..Len(result) :
                   result[i].totalAmount = TotalFor(events, result[i].address, 1)
            /\ \A i, j \in 1..Len(result) :
                   i < j => /\ result[i].address # result[j].address
                            /\ result[i].totalAmount >= result[j].totalAmount
            /\ \A X \in addrs \ kept : \A i \in 1..Len(result) :
                   TotalFor(events, X, 1) <= result[i].totalAmount

\* twelve addresses, ten kept, and a tie at the cut: an address left out has
\* the total of the last address kept
C6_Witness ==
    /\ Aggregated("wallets")
    /\ Cardinality(AddressesOf(last.body.data)) = 12
    /\ Len(result) = 10
    /\ \E X \in AddressesOf(last.body.data) :
           /\ \A i \in 1..10 : result[i].address # X
           /\ TotalFor(last.body.data, X, 1) = result[10].totalAmount
    /\ result[1].totalAmount > result[10].totalAmount

-----------------------------------------------------------------------------
\* the label and the value of a bucket of the volume chart or the count chart
BucketLabel(b) == IF kind = "volume" THEN b.timestamp ELSE b.minute

BucketValue(b) == IF kind = "volume" THEN b.amount ELSE b.volume

\* what one event adds to its bucket: its amount as the volume chart decodes
\* it (two decimals, in cents), or one
Contribution(event) ==
    IF kind = "volume" THEN ToFixed2(AmountRaw(event.data)) ELSE 1

RECURSIVE SumOf(_, _, _)
\* the contributions of the events whose label is in labels
SumOf(events, labels, i) ==
    IF i > Len(events) THEN 0
    ELSE (IF MinuteLabel(events[i].block_timestamp) \in labels
          THEN Contribution(events[i]) ELSE 0) + SumOf(events, labels, i + 1)

RECURSIVE SumValues(_, _)
SumValues(buckets, i) ==
    IF i > Len(buckets) THEN 0 ELSE BucketValue(buckets[i]) + SumValues(buckets, i + 1)

RECURSIVE RawSumOf(_, _, _)
\* the decoded amounts, in raw units, of the events whose label is in labels
RawSumOf(events, labels, i) ==
    IF i > Len(events) THEN 0
    ELSE (IF MinuteLabel(events[i].block_timestamp) \in labels
          THEN AmountRaw(events[i].data) ELSE 0) + RawSumOf(events, labels, i + 1)

(* C7, as claimed  Time buckets: one bucket per distinct HH:mm label of the *)
(* batch; a bucket of the count chart holds the number of events of its     *)
(* label, a bucket of the volume chart the sum of their decoded amounts     *)
(* (data / 10^6); the bucket values add up to the number of events, or to   *)
(* the total amount of the batch.  A cent is 10^4 raw units.                *)
C7_ExactAmounts ==
    (Aggregated("volume") \/ Aggregated("count")) =>
        LET events == last.body.data
            labels == { MinuteLabel(events[i].block_timestamp) : i \in 1..Len(events) }
        IN  /\ Len(result) = Cardinality(labels)
            /\ \A i, j \in 1..Len(result) :
                   BucketLabel(result[i]) = BucketLabel(result[j]) => i = j
            /\ \A i \in 1..Len(result) :
                   /\ BucketLabel(result[i]) \in labels
                   /\ kind = "count" =>
                          result[i].volume = SumOf(events, {result[i].minute}, 1)
                   /\ kind = "volume" =>
                          result[i].amount * 10000 = RawSumOf(events, {result[i].timestamp}, 1)
            /\ kind = "count" => SumValues(result, 1) = Len(events)
            /\ kind = "volume" => SumValues(result, 1) * 10000 = RawSumOf(events, labels, 1)

(* C7, amended  Time buckets: in both chart views the output has exactly    *)
(* one bucket per distinct HH:mm label of the batch; a bucket of the count  *)
(* chart holds the number of events of its label, a bucket of the volume    *)
(* chart the sum of their amounts each rounded to two decimals; the bucket  *)
(* values add up to the number of events, or to the total of the rounded    *)
(* amounts of the batch.                                                    *)
C7_TimeBuckets ==
    (Aggregated("volume") \/ Aggregated("count")) =>
        LET events == last.body.data
            labels == { MinuteLabel(events[i].block_timestamp) : i \in 1..Len(events) }
        IN  /\ Len(result) = Cardinality(labels)
            /\ \A i, j \in 1..Len(result) :
                   BucketLabel(result[i]) = BucketLabel(result[j]) => i = j
            /\ \A i \in 1..Len(result) :
                   /\ BucketLabel(result[i]) \in labels
                   /\ BucketValue(result[i]) = SumOf(events, {BucketLabel(result[i])}, 1)
            /\ SumValues(result, 1) = SumOf(events, labels, 1)
            /\ kind = "count" => SumValues(result, 1) = Len(events)

\* two transfers a day apart fall in one minute of the volume chart, which
\* shows the sum of 20.00 and 1.23
C7_Witness ==
    /\ Aggregated("volume")
    /\ Len(last.body.data) = 2
    /\ Len(result) = 1
    /\ result[1].amount = 2123
    /\ last.body.data[1].block_timestamp + 86400 <= last.body.data[2].block_timestamp

(* C8  Chronological sort: in both chart views the buckets are in strictly  *)
(* increasing order of the time of day of their label, whatever the order   *)
(* of the events in the response.                                           *)
C8_Chronological ==
    (Aggregated("volume") \/ Aggregated("count")) =>
        LET events == last.body.data IN
        \A i, j \in 1..Len(result) : i < j =>
            \A e1, e2 \in 1..Len(events) :
                ( /\ MinuteLabel(events[e1].block_timestamp) = BucketLabel(result[i])
                  /\ MinuteLabel(events[e2].block_timestamp) = BucketLabel(result[j]) )
                => MinuteOfDay(events[e1].block_timestamp)
                       < MinuteOfDay(events[e2].block_timestamp)

\* the events arrive at 09:05, 09:01 and 08:59 and the buckets come out as
\* 08:59, 09:01, 09:05
C8_Witness ==
    /\ Aggregated("count")
    /\ tz = 0
    /\ Len(last.body.data) = 3
    /\ MinuteLabel(last.body.data[1].block_timestamp) = <<"0", "9", ":", "0", "5">>
    /\ MinuteLabel(last.body.data[2].block_timestamp) = <<"0", "9", ":", "0", "1">>
    /\ MinuteLabel(last.body.data[3].block_timestamp) = <<"0", "8", ":", "5", "9">>
    /\ result = << [minute |-> <<"0", "8", ":", "5", "9">>, volume |-> 1],
                   [minute |-> <<"0", "9", ":", "0", "1">>, volume |-> 1],
                   [minute |-> <<"0", "9", ":", "0", "5">>, volume |-> 1] >>

-----------------------------------------------------------------------------
\* "0x" followed by 64 hex characters
WellFormedTopic(t) ==
    /\ Len(t) = 66
    /\ t[1] = "0" /\ t[2] = "x"
    /\ \A i \in 3..66 : HexVal(t[i]) # NaN

\* the last 40 characters of a topic, one by one
LastForty(t) == [i \in 1..40 |-> t[Len(t) - 40 + i]]

\* the sender and receiver topics of the batch just processed
TopicsOf(events) ==
    { TopicAt(events[i], j) : i \in 1..Len(events), j \in {1, 2} }

(* C11  Address decode: for every topic that is "0x" followed by 64 hex     *)
(* characters, the decoded address is "0x" followed by exactly the last 40  *)
(* characters of the topic, unchanged; the recent-transfers view and the    *)
(* top-wallets view decode the same topic to the same address, and the      *)
(* addresses of the wallet summaries shown are such addresses.              *)
C11_AddressDecode ==
    (Aggregated("transfers") \/ Aggregated("wallets")) =>
        /\ \A t \in TopicsOf(last.body.data) :
               WellFormedTopic(t) =>
                   /\ decodeAddress(t) = <<"0", "x">> \o LastForty(t)
                   /\ Len(decodeAddress(t)) = 42
                   /\ WalletAddress(t) = decodeAddress(t)
        /\ kind = "wallets" =>
               \A i \in 1..Len(result) :
                   \E t \in TopicsOf(last.body.data) :
                       result[i].address = <<"0", "x">> \o LastForty(t)

\* a topic whose 24 characters of padding are not zeros was decoded by the
\* top-wallets view to its last 40 characters
C11_Witness ==
    /\ Aggregated("wallets")
    /\ \E t \in TopicsOf(last.body.data) :
           /\ WellFormedTopic(t)
           /\ \E i \in 3..26 : t[i] # "0"
           /\ \E i \in 1..Len(result) :
                  result[i].address = <<"0", "x">> \o SubSeq(t, 27, 66)

-----------------------------------------------------------------------------
(* C12  The loading flag starts true, is false from the first completion    *)
(* of a fetch on (success or failure), and no later refresh sets it back:   *)
(* a refresh shows only in isRefreshing, and the result set stays as it was *)
(* until a call completes without failing.                                  *)
C12_LoadingOnlyAtFirst ==
    /\ [](loading <=> done = <<>>)
    /\ [][~loading => ~loading']_vars
    /\ [][clicks' # clicks =>
            /\ loading' = loading
            /\ isRefreshing'
            /\ result' = result]_vars
    /\ [][result' # result => Len(done') = Len(done) + 1 /\ last'.ok]_vars

\* a refresh is in flight after a first fetch that succeeded: the loading
\* flag is false and the previous result set is still there
C12_Witness ==
    /\ last.op = "click"
    /\ inflight # {}
    /\ isRefreshing
    /\ ~loading
    /\ lastOkBody.some
    /\ result # <<>>
    /\ result = Process(kind, lastOkBody.body).value

(* C13  In the three views that keep an error message, whenever no request  *)
(* is in flight and at least one has completed, the error message is        *)
(* non-null if and only if the request that completed last failed.          *)
C13_ErrorIffLastFailed ==
    (HasErrorState(kind) /\ AllDone /\ done # <<>>) =>
        (error # Null <=> ~done[Len(done)].ok)

=============================================================================
